---- MODULE Spec2Model ----
(***************************************************************************)
(* A model of stampy-text-extractor.py: extract_urls, strip_tags,          *)
(* parse_datetime, parse_json_data, search_entries, dump_entries,          *)
(* download_json and main.                                                 *)
(*                                                                         *)
(* A Python str is a sequence of one-character strings.  A loosely typed   *)
(* JSON value is a record [t, v]: t is "str", "none" or "int" and v is the *)
(* string itself or, for a non-string, its textual representation str(x).  *)
(***************************************************************************)
EXTENDS Integers, Sequences, FiniteSets, TLC

VARIABLES
  pc,              \* the control point of the running program
  input, ret,      \* the argument and the result of extract_urls / strip_tags
  content,         \* json_data: the raw records handed to parse_json_data
  idx,             \* the position of the running for loop in its list
  entries,         \* the list parse_json_data builds and returns
  diag,            \* the diagnostics printed so far
  term, case_sensitive, whole_word,   \* the search arguments
  results,         \* the list search_entries builds and returns
  dir,             \* the 'entries' directory: whether it exists, and its files
  nb_entries,      \* dump_entries' count of written files
  args,            \* the parsed command line and the environment
  cache            \* the local file stampy_text_html.json: whether it exists, its data

vars == <<pc, input, ret, content, idx, entries, diag, term, case_sensitive,
          whole_word, results, dir, nb_entries, args, cache>>

(***************************************************************************)
(* Characters.                                                             *)
(***************************************************************************)
Ascii ==
  <<" ", "!", "\"", "#", "$", "%", "&", "'", "(", ")", "*", "+", ",", "-", ".", "/",
    "0", "1", "2", "3", "4", "5", "6", "7", "8", "9", ":", ";", "<", "=", ">", "?",
    "@", "A", "B", "C", "D", "E", "F", "G", "H", "I", "J", "K", "L", "M", "N", "O",
    "P", "Q", "R", "S", "T", "U", "V", "W", "X", "Y", "Z", "[", "\\", "]", "^", "_",
    "GRAVE", "a", "b", "c", "d", "e", "f", "g", "h", "i", "j", "k", "l", "m", "n", "o",
    "p", "q", "r", "s", "t", "u", "v", "w", "x", "y", "z", "{", "|", "}", "~">>

\* The code point of a character; a line feed is 10, a tab is 9.  "GRAVE" is
\* the grave accent (96), which a TLA+ string cannot hold.
CodePoint ==
  [c \in {Ascii[i] : i \in 1..Len(Ascii)} \cup {"\n", "\t"} |->
     IF c = "\n" THEN 10
     ELSE IF c = "\t" THEN 9
     ELSE 31 + (CHOOSE i \in 1..Len(Ascii) : Ascii[i] = c)]

Ord(c) == CodePoint[c]

InRange(c, lo, hi) == Ord(lo) <= Ord(c) /\ Ord(c) <= Ord(hi)

IsUpper(c) == InRange(c, "A", "Z")
IsLower(c) == InRange(c, "a", "z")
IsAlpha(c) == IsUpper(c) \/ IsLower(c)
IsDigit(c) == InRange(c, "0", "9")
IsAlnum(c) == IsAlpha(c) \/ IsDigit(c)
IsHex(c) == IsDigit(c) \/ InRange(c, "a", "f") \/ InRange(c, "A", "F")
IsSpace(c) == c \in {" ", "\n", "\t"}

StartsWith(s, i, lit) ==
  /\ i >= 1
  /\ i + Len(lit) - 1 <= Len(s)
  /\ \A k \in 1..Len(lit) : s[i + k - 1] = lit[k]

\* s[i..j] (1-based, inclusive); empty when j < i.
Slice(s, i, j) == IF j < i THEN <<>> ELSE SubSeq(s, i, j)

\* The first position >= i of character c in s, or 0.
IndexFrom(s, c, i) ==
  IF \E k \in i..Len(s) : s[k] = c
  THEN CHOOSE k \in i..Len(s) : s[k] = c /\ \A j \in i..(k - 1) : s[j] # c
  ELSE 0

RECURSIVE Flatten(_)
Flatten(ss) == IF ss = <<>> THEN <<>> ELSE Head(ss) \o Flatten(Tail(ss))

(***************************************************************************)
(* Loosely typed values.                                                   *)
(***************************************************************************)
Str(s) == [t |-> "str", v |-> s]
None == [t |-> "none", v |-> <<"N", "o", "n", "e">>]
\* A number, given by its decimal representation.
NonStr(repr) == [t |-> "int", v |-> repr]
\* A JSON object: a function from some keys to values.
Mapping(f) == [t |-> "dict", v |-> f]

\* Python truthiness of a value.
Truthy(x) ==
  IF x.t = "none" THEN FALSE
  ELSE IF x.t = "int" THEN x.v # <<"0">>
  ELSE x.v # <<>>

\* item.get(key, default) on a mapping.
Get(item, key, default) == IF key \in DOMAIN item.v THEN item.v[key] ELSE default

(***************************************************************************)
(* extract_urls                                                            *)
(***************************************************************************)
\* UrlStep with '$', '-' and '_' as three characters instead of a range.
UrlStepLiterals(s, p) ==
  IF p > Len(s) THEN 0
  ELSE IF IsAlpha(s[p]) THEN 1
  ELSE IF IsDigit(s[p]) THEN 1
  ELSE IF s[p] \in {"$", "-", "_", "@", ".", "&", "+"} THEN 1
  ELSE IF s[p] \in {"!", "*", "\\", "(", ")", ","} THEN 1
  ELSE IF s[p] = "%" /\ p + 2 <= Len(s) /\ IsHex(s[p + 1]) /\ IsHex(s[p + 2]) THEN 3
  ELSE 0

\* One repetition of the group (?:[a-zA-Z]|[0-9]|[$-_@.&+]|[!*\\(\\),]|%XX)
\* at position p: the number of characters it consumes, 0 when none of the
\* alternatives matches.  Inside the third class, $-_ is a range.
UrlStep(s, p) ==
  IF p > Len(s) THEN 0
  ELSE IF IsAlpha(s[p]) THEN 1
  ELSE IF IsDigit(s[p]) THEN 1
  ELSE IF InRange(s[p], "$", "_") \/ s[p] \in {"@", ".", "&", "+"} THEN 1
  ELSE IF s[p] \in {"!", "*", "\\", "(", ")", ","} THEN 1
  ELSE IF s[p] = "%" /\ p + 2 <= Len(s) /\ IsHex(s[p + 1]) /\ IsHex(s[p + 2]) THEN 3
  ELSE 0

\* The end of the greedy repetition that starts at p (p - 1 when it is empty).
RECURSIVE UrlRun(_, _)
UrlRun(s, p) ==
  LET k == UrlStep(s, p) IN IF k = 0 THEN p - 1 ELSE UrlRun(s, p + k)

\* http[s]?:// at position i: the position after the prefix, or 0.
UrlPrefix(s, i) ==
  IF StartsWith(s, i, <<"h", "t", "t", "p", "s", ":", "/", "/">>) THEN i + 8
  ELSE IF StartsWith(s, i, <<"h", "t", "t", "p", ":", "/", "/">>) THEN i + 7
  ELSE 0

\* The end of a match of url_pattern that starts at i, or 0.
UrlMatchEnd(s, i) ==
  LET p == UrlPrefix(s, i) IN
    IF p = 0 THEN 0
    ELSE LET e == UrlRun(s, p) IN IF e < p THEN 0 ELSE e

\* url_pattern.findall(s) scanning from position i.
RECURSIVE FindUrls(_, _)
FindUrls(s, i) ==
  IF i > Len(s) THEN <<>>
  ELSE LET e == UrlMatchEnd(s, i) IN
         IF e = 0 THEN FindUrls(s, i + 1)
         ELSE <<Slice(s, i, e)>> \o FindUrls(s, e + 1)

StatePrefix == <<"/", "?", "s", "t", "a", "t", "e", "=">>
StateMiddle == <<"&", "a", "m", "p", ";", "q", "u", "e", "s", "t", "i", "o", "n", "=">>

\* The end of the greedy run [^"]+ that starts at p (p - 1 when it is empty).
RECURSIVE NonQuoteRun(_, _)
NonQuoteRun(s, p) ==
  IF p > Len(s) \/ s[p] = "\"" THEN p - 1 ELSE NonQuoteRun(s, p + 1)

\* The end of a match of state_url_pattern that starts at i, or 0.
StateMatchEnd(s, i) ==
  IF /\ StartsWith(s, i, StatePrefix)
     /\ i + 11 <= Len(s)
     /\ \A k \in 8..11 : IsAlnum(s[i + k])
     /\ StartsWith(s, i + 12, StateMiddle)
     /\ NonQuoteRun(s, i + 26) >= i + 26
  THEN NonQuoteRun(s, i + 26)
  ELSE 0

\* state_url_pattern.findall(s) scanning from position i.
RECURSIVE FindStateUrls(_, _)
FindStateUrls(s, i) ==
  IF i > Len(s) THEN <<>>
  ELSE LET e == StateMatchEnd(s, i) IN
         IF e = 0 THEN FindStateUrls(s, i + 1)
         ELSE <<Slice(s, i, e)>> \o FindStateUrls(s, e + 1)

\* extract_urls(text): None gives [], a non-string is scanned as str(text).
extract_urls(text) ==
  IF text.t = "none" THEN <<>>
  ELSE FindUrls(text.v, 1) \o FindStateUrls(text.v, 1)

(***************************************************************************)
(* strip_tags: BeautifulSoup(html_text, 'html.parser').get_text(), the     *)
(* concatenation of the text the tokenizer of html.parser hands over.  The *)
(* inputs of the model hold no comment, declaration or processing          *)
(* instruction ("<!", "<?"), no numeric character reference, no script or  *)
(* style element and no '>' inside a quoted attribute value.               *)
(***************************************************************************)
IsNameChar(c) == IsAlnum(c) \/ c \in {"-", "."}

\* The end of the run [-.a-zA-Z0-9]* that starts at p (p - 1 when empty).
RECURSIVE NameRun(_, _)
NameRun(s, p) ==
  IF p > Len(s) \/ ~IsNameChar(s[p]) THEN p - 1 ELSE NameRun(s, p + 1)

\* The named character references the inputs use.
EntityChar(name) ==
  IF name = <<"l", "t">> THEN <<"<">>
  ELSE IF name = <<"g", "t">> THEN <<">">>
  ELSE IF name = <<"a", "m", "p">> THEN <<"&">>
  ELSE IF name = <<"q", "u", "o", "t">> THEN <<"\"">>
  ELSE <<"&">> \o name

\* The text nodes of s from position i on, concatenated.
RECURSIVE HtmlText(_, _)
\* TagOpen with an end tag handed over as text.
TagOpenKeepsEndTags(s, i) ==
  IF i < Len(s) /\ IsAlpha(s[i + 1])
  THEN LET gt == IndexFrom(s, ">", i + 1) IN
         IF gt # 0 THEN HtmlText(s, gt + 1)
         ELSE LET lt == IndexFrom(s, "<", i + 1)
                  k == IF lt = 0 THEN i + 1 ELSE lt
              IN Slice(s, i, k - 1) \o HtmlText(s, k)
  ELSE <<"<">> \o HtmlText(s, i + 1)

\* s[i] = "<"
TagOpen(s, i) ==
  IF i < Len(s) /\ (IsAlpha(s[i + 1]) \/ s[i + 1] = "/")
  THEN \* a start tag, an end tag or a bogus comment: it ends at the next '>'
       LET gt == IndexFrom(s, ">", i + 1) IN
         IF gt # 0 THEN HtmlText(s, gt + 1)
         ELSE \* never closed: handed over as text up to the next '<'
              LET lt == IndexFrom(s, "<", i + 1)
                  k == IF lt = 0 THEN i + 1 ELSE lt
              IN Slice(s, i, k - 1) \o HtmlText(s, k)
  ELSE <<"<">> \o HtmlText(s, i + 1)

\* s[i] = "&"
Reference(s, i) ==
  IF i < Len(s) /\ IsAlpha(s[i + 1])
  THEN LET e == NameRun(s, i + 1) IN
         IF e < Len(s)
         THEN EntityChar(Slice(s, i + 1, e))
                \o HtmlText(s, IF s[e + 1] = ";" THEN e + 2 ELSE e + 1)
         ELSE IF \E q \in (i + 2)..e : s[q] \in {"-", "."}
         THEN LET q == CHOOSE q \in (i + 2)..e :
                         /\ s[q] \in {"-", "."}
                         /\ \A r \in (q + 1)..e : s[r] \notin {"-", "."}
              IN EntityChar(Slice(s, i + 1, q - 1)) \o HtmlText(s, q)
         ELSE \* an incomplete reference at the end of the input
              IF e = i + 1 THEN <<s[e]>> ELSE Slice(s, i, e)
  ELSE <<"&">> \o HtmlText(s, i + 1)

HtmlText(s, i) ==
  IF i > Len(s) THEN <<>>
  ELSE IF s[i] = "<" THEN TagOpen(s, i)
  ELSE IF s[i] = "&" THEN Reference(s, i)
  ELSE <<s[i]>> \o HtmlText(s, i + 1)

\* strip_tags(html_text): None gives "".
strip_tags(html_text) ==
  IF html_text.t = "none" THEN <<>> ELSE HtmlText(html_text.v, 1)

(***************************************************************************)
(* parse_datetime.  A datetime is <<year, month, day>>: the inputs of the  *)
(* model carry no time of day.  A call either returns a value or raises an *)
(* exception, named by its type.                                           *)
(***************************************************************************)
Return(v) == [exc |-> "", val |-> v]
Raise(e) == [exc |-> e, val |-> <<>>]
DatetimeMin == <<1, 1, 1>>

\* date_string.rstrip('Z')
RECURSIVE RStripZ(_)
RStripZ(s) ==
  IF s # <<>> /\ s[Len(s)] = "Z" THEN RStripZ(SubSeq(s, 1, Len(s) - 1)) ELSE s

Digit(c) == Ord(c) - Ord("0")

DaysInMonth(y, m) ==
  IF m = 2
  THEN IF (y % 4 = 0 /\ y % 100 # 0) \/ y % 400 = 0 THEN 29 ELSE 28
  ELSE IF m \in {4, 6, 9, 11} THEN 30 ELSE 31

\* datetime.fromisoformat(s) for a date without a time of day, YYYY-MM-DD.
FromIsoformat(s) ==
  IF /\ Len(s) = 10
     /\ \A k \in {1, 2, 3, 4, 6, 7, 9, 10} : IsDigit(s[k])
     /\ s[5] = "-" /\ s[8] = "-"
  THEN LET y == 1000 * Digit(s[1]) + 100 * Digit(s[2]) + 10 * Digit(s[3]) + Digit(s[4])
           m == 10 * Digit(s[6]) + Digit(s[7])
           d == 10 * Digit(s[9]) + Digit(s[10])
       IN IF y >= 1 /\ m \in 1..12 /\ d >= 1 /\ d <= DaysInMonth(y, m)
          THEN Return(<<y, m, d>>) ELSE Raise("ValueError")
  ELSE Raise("ValueError")

\* parse_datetime(date_string); a number has no rstrip.
parse_datetime(date_string) ==
  IF ~Truthy(date_string) THEN Return(DatetimeMin)
  ELSE IF date_string.t # "str" THEN Raise("AttributeError")
  ELSE FromIsoformat(RStripZ(date_string.v))

(***************************************************************************)
(* parse_json_data.  Of the fields of an Entry the model keeps title,      *)
(* text, status, updatedAt and URLs; the others are copied through.  A     *)
(* title is a str and a status an opaque string.                           *)
(***************************************************************************)
excluded_statuses == {"Marked for deletion", "Subsection", "Duplicate"}

\* The body of the try block up to the construction of the Entry: the Entry,
\* or the exception raised on the way.
MakeEntry(item) ==
  IF item.t # "dict" THEN Raise("AttributeError")
  ELSE LET rawtext == Get(item, "text", Str(<<>>))
           urls == extract_urls(rawtext)
           updatedAt == parse_datetime(Get(item, "updatedAt", Str(<<>>)))
       IN IF rawtext.t = "int" THEN Raise("TypeError")
          ELSE IF updatedAt.exc # "" THEN updatedAt
          ELSE Return([title |-> Get(item, "title", <<>>),
                       text |-> strip_tags(rawtext),
                       status |-> Get(item, "status", ""),
                       updatedAt |-> updatedAt.val,
                       URLs |-> urls])

Parsing == pc = "parse" /\ idx <= Len(content)

\* ParseKeep without the test of the status.
ParseKeepAnyStatus ==
  /\ Parsing
  /\ LET r == MakeEntry(content[idx]) IN
       /\ r.exc = ""
       /\ entries' = Append(entries, r.val)
  /\ idx' = idx + 1
  /\ UNCHANGED <<pc, input, ret, content, diag, term, case_sensitive, whole_word,
                 results, dir, nb_entries, args, cache>>

\* The entry is built and its status is not excluded: it is appended.
ParseKeep ==
  /\ Parsing
  /\ LET r == MakeEntry(content[idx]) IN
       /\ r.exc = ""
       /\ r.val.status \notin excluded_statuses
       /\ entries' = Append(entries, r.val)
  /\ idx' = idx + 1
  /\ UNCHANGED <<pc, input, ret, content, diag, term, case_sensitive, whole_word,
                 results, dir, nb_entries, args, cache>>

\* The entry is built and its status is excluded: nothing is appended.
ParseExclude ==
  /\ Parsing
  /\ LET r == MakeEntry(content[idx]) IN
       /\ r.exc = ""
       /\ r.val.status \in excluded_statuses
  /\ idx' = idx + 1
  /\ UNCHANGED <<pc, input, ret, content, entries, diag, term, case_sensitive,
                 whole_word, results, dir, nb_entries, args, cache>>

\* except ValueError: the record is reported and the loop goes on.
ParseSkip ==
  /\ Parsing
  /\ MakeEntry(content[idx]).exc = "ValueError"
  /\ diag' = Append(diag, <<"Error parsing entry", idx>>)
  /\ idx' = idx + 1
  /\ UNCHANGED <<pc, input, ret, content, entries, term, case_sensitive,
                 whole_word, results, dir, nb_entries, args, cache>>

\* Any other exception leaves parse_json_data and, uncaught in main, the program.
ParseRaise ==
  /\ Parsing
  /\ MakeEntry(content[idx]).exc \in {"AttributeError", "TypeError"}
  /\ pc' = "parse_raised"
  /\ UNCHANGED <<input, ret, content, idx, entries, diag, term, case_sensitive,
                 whole_word, results, dir, nb_entries, args, cache>>

\* return entries
ParseReturn ==
  /\ pc = "parse" /\ idx > Len(content)
  /\ pc' = "parsed"
  /\ UNCHANGED <<input, ret, content, idx, entries, diag, term, case_sensitive,
                 whole_word, results, dir, nb_entries, args, cache>>

(***************************************************************************)
(* search_entries.  The pattern is re.escape(search_term), between two \b  *)
(* when whole_word is set: it matches the term literally, a line feed      *)
(* included.  A position is 1-based here; a match is given by its start.   *)
(***************************************************************************)
Lower(c) == IF IsUpper(c) THEN Ascii[Ord(c) + 32 - 31] ELSE c

IsWord(c) == IsAlnum(c) \/ c = "_"

\* \b before s[p]: one of s[p - 1] and s[p] is a word character, not both.
WordBoundary(s, p) ==
  (p > 1 /\ IsWord(s[p - 1])) # (p <= Len(s) /\ IsWord(s[p]))

\* The pattern matches s at position p.
MatchAt(s, p, t, cs, ww) ==
  /\ p >= 1
  /\ p + Len(t) - 1 <= Len(s)
  /\ \A k \in 1..Len(t) :
       IF cs THEN s[p + k - 1] = t[k] ELSE Lower(s[p + k - 1]) = Lower(t[k])
  /\ ww => WordBoundary(s, p) /\ WordBoundary(s, p + Len(t))

\* re.search(pattern, s): the start of the leftmost match, or 0.
SearchFrom(s, i, t, cs, ww) ==
  IF \E p \in i..(Len(s) + 1) : MatchAt(s, p, t, cs, ww)
  THEN CHOOSE p \in i..(Len(s) + 1) :
         /\ MatchAt(s, p, t, cs, ww)
         /\ \A q \in i..(p - 1) : ~MatchAt(s, q, t, cs, ww)
  ELSE 0

\* re.finditer(pattern, s) from position i: the starts of the matches, no two
\* overlapping; after an empty match the scan moves one character on.
RECURSIVE FindIter(_, _, _, _, _)
FindIter(s, i, t, cs, ww) ==
  LET p == SearchFrom(s, i, t, cs, ww) IN
    IF p = 0 THEN <<>>
    ELSE <<p>> \o FindIter(s, IF t = <<>> THEN p + 1 ELSE p + Len(t), t, cs, ww)

\* match.group()
Group(s, p, t) == Slice(s, p, p + Len(t) - 1)

\* s.split('\n')
RECURSIVE SplitLines(_)
SplitLines(s) ==
  LET k == IndexFrom(s, "\n", 1) IN
    IF k = 0 THEN <<s>>
    ELSE <<Slice(s, 1, k - 1)>> \o SplitLines(Slice(s, k + 1, Len(s)))

\* line.strip()
RECURSIVE Strip(_)
Strip(s) ==
  IF s # <<>> /\ IsSpace(s[1]) THEN Strip(Tail(s))
  ELSE IF s # <<>> /\ IsSpace(s[Len(s)]) THEN Strip(SubSeq(s, 1, Len(s) - 1))
  ELSE s

\* A match record.  ('title', start, group) has no line and ('text', group,
\* line) and ('url', group, url) have no start: start is -1 there, and the
\* last component, the stripped line or the URL, is "line".
MatchRecord(kind, start, group, line) ==
  [kind |-> kind, start |-> start, group |-> group, line |-> line]

\* The title match, if any: the start is 0-based as in Python.
TitleMatches(entry, t, cs, ww) ==
  LET p == SearchFrom(entry.title, 1, t, cs, ww) IN
    IF p = 0 THEN <<>>
    ELSE <<MatchRecord("title", p - 1, Group(entry.title, p, t), <<>>)>>

\* The records of one line, one per match.
LineMatches(line, t, cs, ww) ==
  LET ps == FindIter(line, 1, t, cs, ww) IN
    [k \in 1..Len(ps) |-> MatchRecord("text", -1, Group(line, ps[k], t), Strip(line))]

\* for line_num, line in enumerate(entry.text.split('\n'), 1): ...
RECURSIVE LinesMatches(_, _, _, _)
LinesMatches(lines, t, cs, ww) ==
  IF lines = <<>> THEN <<>>
  ELSE LineMatches(Head(lines), t, cs, ww) \o LinesMatches(Tail(lines), t, cs, ww)

\* for url, url_match in zip(entry.URLs, url_matches): ...
RECURSIVE UrlMatches(_, _, _, _)
UrlMatches(urls, t, cs, ww) ==
  IF urls = <<>> THEN <<>>
  ELSE LET u == Head(urls)
           p == SearchFrom(u, 1, t, cs, ww)
       IN (IF p = 0 THEN <<>> ELSE <<MatchRecord("url", -1, Group(u, p, t), u)>>)
            \o UrlMatches(Tail(urls), t, cs, ww)

\* if title_match or text_match or any(url_matches): text_match is
\* re.search over the whole text, not over its lines.
EntryMatches(entry, t, cs, ww) ==
  \/ SearchFrom(entry.title, 1, t, cs, ww) # 0
  \/ SearchFrom(entry.text, 1, t, cs, ww) # 0
  \/ \E k \in 1..Len(entry.URLs) : SearchFrom(entry.URLs[k], 1, t, cs, ww) # 0

\* SearchResult with the URL matches before the text matches.
SearchResultUrlsFirst(entry, t, cs, ww) ==
  [title |-> entry.title,
   status |-> entry.status,
   matches |-> TitleMatches(entry, t, cs, ww)
                 \o UrlMatches(entry.URLs, t, cs, ww)
                 \o LinesMatches(SplitLines(entry.text), t, cs, ww)]

\* The result built for an entry that matches.
SearchResult(entry, t, cs, ww) ==
  [title |-> entry.title,
   status |-> entry.status,
   matches |-> TitleMatches(entry, t, cs, ww)
                 \o LinesMatches(SplitLines(entry.text), t, cs, ww)
                 \o UrlMatches(entry.URLs, t, cs, ww)]

Searching == pc = "search" /\ idx <= Len(entries)

\* One turn of the loop for an entry that matches: its result is appended.
SearchHit ==
  /\ Searching
  /\ EntryMatches(entries[idx], term, case_sensitive, whole_word)
  /\ results' = Append(results,
                       SearchResult(entries[idx], term, case_sensitive, whole_word))
  /\ idx' = idx + 1
  /\ UNCHANGED <<pc, input, ret, content, entries, diag, term, case_sensitive,
                 whole_word, dir, nb_entries, args, cache>>

\* One turn of the loop for an entry that does not match.
SearchMiss ==
  /\ Searching
  /\ ~EntryMatches(entries[idx], term, case_sensitive, whole_word)
  /\ idx' = idx + 1
  /\ UNCHANGED <<pc, input, ret, content, entries, diag, term, case_sensitive,
                 whole_word, results, dir, nb_entries, args, cache>>

\* return results
SearchReturn ==
  /\ pc = "search" /\ idx > Len(entries)
  /\ pc' = "searched"
  /\ UNCHANGED <<input, ret, content, idx, entries, diag, term, case_sensitive,
                 whole_word, results, dir, nb_entries, args, cache>>

(***************************************************************************)
(* dump_entries.  A file is its name and its data; the name is the pair of *)
(* the status and the sanitized title of "entries/({status})_{title}.txt". *)
(* open(filename, 'w') replaces a file of the same name.                   *)
(***************************************************************************)
\* sanitize_filename(title, platform='auto'): a '/' cannot stay in a file name.
RECURSIVE sanitize_filename(_)
sanitize_filename(s) ==
  IF s = <<>> THEN <<>>
  ELSE IF Head(s) = "/" THEN sanitize_filename(Tail(s))
  ELSE <<Head(s)>> \o sanitize_filename(Tail(s))

FileName(entry) == <<entry.status, sanitize_filename(entry.title)>>

FileData(entry) == [title |-> entry.title, URLs |-> entry.URLs, text |-> entry.text]

\* The files after open(filename, 'w') and the writes.
WriteFile(files, entry) ==
  {f \in files : f.name # FileName(entry)}
    \cup {[name |-> FileName(entry), data |-> FileData(entry)]}

\* shutil.rmtree('entries') if it exists, then os.makedirs('entries').
DumpClear ==
  /\ pc = "dump"
  /\ dir' = [exists |-> TRUE, files |-> {}]
  /\ nb_entries' = 0
  /\ idx' = 1
  /\ pc' = "dump_loop"
  /\ UNCHANGED <<input, ret, content, entries, diag, term, case_sensitive,
                 whole_word, results, args, cache>>

Dumping == pc = "dump_loop" /\ idx <= Len(entries)

\* One turn of the loop: the file is written and counted.
DumpWrite ==
  /\ Dumping
  /\ dir' = [dir EXCEPT !.files = WriteFile(dir.files, entries[idx])]
  /\ nb_entries' = nb_entries + 1
  /\ idx' = idx + 1
  /\ UNCHANGED <<pc, input, ret, content, entries, diag, term, case_sensitive,
                 whole_word, results, args, cache>>

\* One turn of the loop: open raises OSError (a name too long, or any other
\* refusal of the system), which is reported.
DumpWriteFails ==
  /\ Dumping
  /\ diag' = Append(diag, <<"Error writing file for entry", idx>>)
  /\ idx' = idx + 1
  /\ UNCHANGED <<pc, input, ret, content, entries, term, case_sensitive,
                 whole_word, results, dir, nb_entries, args, cache>>

\* print(f"Dumped {nb_entries} entries to the 'entries' directory.")
DumpReport ==
  /\ pc = "dump_loop" /\ idx > Len(entries)
  /\ diag' = Append(diag, <<"Dumped", nb_entries>>)
  /\ pc' = "dumped"
  /\ UNCHANGED <<input, ret, content, idx, entries, term, case_sensitive,
                 whole_word, results, dir, nb_entries, args, cache>>

(***************************************************************************)
(* download_json and main.                                                 *)
(***************************************************************************)
\* if args.refresh or not os.path.exists(local_file): download_json(...)
MainDownload ==
  /\ pc = "start"
  /\ args.refresh \/ ~cache.exists
  /\ pc' = "download"
  /\ UNCHANGED <<input, ret, content, idx, entries, diag, term, case_sensitive,
                 whole_word, results, dir, nb_entries, args, cache>>

\* else: json_data = json.load(file); then parse_json_data(json_data) starts.
MainLoadCache ==
  /\ pc = "start"
  /\ ~(args.refresh \/ ~cache.exists)
  /\ content' = cache.data
  /\ entries' = <<>>
  /\ idx' = 1
  /\ pc' = "parse"
  /\ UNCHANGED <<input, ret, diag, term, case_sensitive, whole_word, results,
                 dir, nb_entries, args, cache>>

\* The password: the argument or, when it is empty, STAMPY_PASSWORD.
Password == IF args.password # "" THEN args.password ELSE args.STAMPY_PASSWORD

\* if not password: print(...); sys.exit(1)
DownloadNoPassword ==
  /\ pc = "download"
  /\ Password = ""
  /\ diag' = Append(diag, <<"Error: Please provide the password", 0>>)
  /\ pc' = "exit"
  /\ UNCHANGED <<input, ret, content, idx, entries, term, case_sensitive,
                 whole_word, results, dir, nb_entries, args, cache>>

\* DownloadFails with the local file opened for writing before the fetch.
DownloadFailsAfterOpen ==
  /\ pc = "download"
  /\ Password # ""
  /\ cache' = [exists |-> TRUE, data |-> <<>>]
  /\ pc' = "fetch_failed"
  /\ UNCHANGED <<input, ret, content, idx, entries, diag, term, case_sensitive,
                 whole_word, results, dir, nb_entries, args>>

\* requests.get, raise_for_status or response.json() raises: nothing catches it.
DownloadFails ==
  /\ pc = "download"
  /\ Password # ""
  /\ pc' = "fetch_failed"
  /\ UNCHANGED <<input, ret, content, idx, entries, diag, term, case_sensitive,
                 whole_word, results, dir, nb_entries, args, cache>>

\* The fetch succeeds with data: it is written to the local file and
\* returned; then parse_json_data(json_data) starts.
DownloadOk(data) ==
  /\ pc = "download"
  /\ Password # ""
  /\ cache' = [exists |-> TRUE, data |-> data]
  /\ content' = data
  /\ entries' = <<>>
  /\ idx' = 1
  /\ pc' = "parse"
  /\ UNCHANGED <<input, ret, diag, term, case_sensitive, whole_word, results,
                 dir, nb_entries, args>>

\* After parse_json_data: if args.search: search_entries(...) starts.
MainSearch ==
  /\ pc = "parsed"
  /\ Truthy(args.search)
  /\ term' = args.search.v
  /\ case_sensitive' = args.case_sensitive
  /\ whole_word' = args.whole_word
  /\ results' = <<>>
  /\ idx' = 1
  /\ pc' = "search"
  /\ UNCHANGED <<input, ret, content, entries, diag, dir, nb_entries, args, cache>>

\* No search was asked for.
MainNoSearch ==
  /\ pc = "parsed"
  /\ ~Truthy(args.search)
  /\ pc' = "searched"
  /\ UNCHANGED <<input, ret, content, idx, entries, diag, term, case_sensitive,
                 whole_word, results, dir, nb_entries, args, cache>>

\* if args.dump: dump_entries(entries) starts.
MainDump ==
  /\ pc = "searched"
  /\ args.dump
  /\ pc' = "dump"
  /\ UNCHANGED <<input, ret, content, idx, entries, diag, term, case_sensitive,
                 whole_word, results, dir, nb_entries, args, cache>>

\* main returns.
MainDone ==
  /\ \/ pc = "searched" /\ ~args.dump
     \/ pc = "dumped"
  /\ pc' = "done"
  /\ UNCHANGED <<input, ret, content, idx, entries, diag, term, case_sensitive,
                 whole_word, results, dir, nb_entries, args, cache>>

(***************************************************************************)
(* The inputs of the model.                                                *)
(***************************************************************************)
MaxUrlTokens == 3
MaxHtmlTokens == 4
MaxRecords == 2
MaxEntries == 2

SeqsUpTo(S, n) == UNION {[1..k -> S] : k \in 0..n}

\* The pieces a text given to extract_urls is made of.
UrlTokens ==
  {<<"h", "t", "t", "p", ":", "/", "/">>, <<"h", "t", "t", "p", "s", ":", "/", "/">>, <<"x">>, <<".">>, <<">">>, <<" ">>, <<"\"">>, <<"/", "?", "s", "t", "a", "t", "e", "=", "A", "B", "1", "2", "&", "a", "m", "p", ";", "q", "u", "e", "s", "t", "i", "o", "n", "=">>}

UrlInputs ==
  {Str(Flatten(ts)) : ts \in SeqsUpTo(UrlTokens, MaxUrlTokens)}
    \cup {None, NonStr(<<"5">>)}

\* The pieces a text given to strip_tags is made of.
HtmlTokens == {<<"<">>, <<">">>, <<"/">>, <<"b">>, <<"&", "l", "t", ";">>, <<"&", "g", "t", ";">>}

HtmlInputs ==
  {Str(Flatten(ts)) : ts \in SeqsUpTo(HtmlTokens, MaxHtmlTokens)} \cup {None}

TextQ1 == <<"<", "p", ">", "S", "e", "e", " ", "h", "t", "t", "p", ":", "/", "/", "x", ".", "i", "o", "/", "a", ",", "b", ")", " ", "m", "o", "r", "e", "<", "/", "p", ">">>
DateOk == <<"2", "0", "2", "4", "-", "0", "1", "-", "0", "1">>

\* The raw records: every text with every updatedAt under a kept and an
\* excluded status, the two records of the end-to-end scenario, the other
\* excluded statuses, a record with no field and a record that is no mapping.
RecordQ1 == Mapping([title |-> <<"Q", "1">>, text |-> Str(TextQ1), status |-> "live"])
RecordQ2 == Mapping([title |-> <<"Q", "2">>, text |-> Str(<<"h", "i">>), status |-> "Duplicate"])
RecordDeleted ==
  Mapping([title |-> <<"Q", "3">>, text |-> None, status |-> "Marked for deletion",
           updatedAt |-> Str(DateOk \o <<"Z">>)])
RecordSubsection ==
  Mapping([title |-> <<"Q", "4">>, status |-> "Subsection", updatedAt |-> None])
RecordBadDate ==
  Mapping([title |-> <<"Q", "5">>, text |-> Str(<<"h", "i">>), status |-> "live",
           updatedAt |-> Str(<<"2", "0", "2", "4", "-", "1", "3", "-", "0", "1">>)])
RecordEmpty == Mapping(<<>>)
RecordNotMapping == Str(<<"x">>)

RawTexts == {Str(TextQ1), NonStr(<<"5">>)}

RawDates ==
  {Str(<<>>), Str(DateOk), Str(DateOk \o <<"Z">>), Str(DateOk \o <<"Z", "Z">>),
   Str(<<"2", "0", "2", "4", "-", "1", "3", "-", "0", "1">>), Str(<<"Z">>), NonStr(<<"5">>)}

RawRecords ==
  {Mapping([title |-> <<"Q">>, text |-> x, status |-> st, updatedAt |-> d]) :
     x \in RawTexts, st \in {"live", "Duplicate"}, d \in RawDates}
    \cup {RecordQ1, RecordQ2, RecordDeleted, RecordSubsection, RecordBadDate,
          RecordEmpty, RecordNotMapping}

\* The records main reads from the cache or from the network.
MainRecords ==
  {RecordQ1, RecordQ2, RecordDeleted, RecordBadDate, RecordEmpty, RecordNotMapping}

NewEntry(title, body, status, urls) ==
  [title |-> title, text |-> body, status |-> status, updatedAt |-> DatetimeMin,
   URLs |-> urls]

\* The entries search_entries is called with.
SearchTitles == {<<>>, <<"A", "b">>}
SearchTexts == {<<"a", "\n", "b">>, <<" ", "a", "A", " ">>, <<"a", "b", "\n", "b", " ", "a">>}
SearchUrls == {<<>>, <<<<"b">>, <<"a", ".", "b">>>>}
SearchUniverse ==
  {NewEntry(ti, x, "live", us) : ti \in SearchTitles, x \in SearchTexts, us \in SearchUrls}
SearchTerms == {<<"a">>, <<"A">>, <<"b">>, <<"a", "b">>, <<"a", "\n", "b">>, <<>>}

\* The entries dump_entries is called with, and the directory it finds.
DumpUniverse ==
  {NewEntry(ti, <<"x">>, st, <<>>) :
     ti \in {<<"Q">>, <<"Q", "/">>, <<"R">>}, st \in {"live", "inProgress"}}
StaleFile ==
  [name |-> <<"Duplicate", <<"o", "l", "d">>>>,
   data |-> [title |-> <<"o", "l", "d">>, URLs |-> <<>>, text |-> <<>>]]
PriorDirs == {[exists |-> FALSE, files |-> {}], [exists |-> TRUE, files |-> {StaleFile}]}

\* The command lines, with the environment variable STAMPY_PASSWORD.
NewArgs(refresh, dump, password, env, search, cs, ww) ==
  [refresh |-> refresh, dump |-> dump, password |-> password,
   STAMPY_PASSWORD |-> env, search |-> search, case_sensitive |-> cs,
   whole_word |-> ww]
SearchArgs ==
  {<<None, FALSE, FALSE>>, <<Str(<<"x", ".", "i", "o">>), FALSE, FALSE>>,
   <<Str(<<"Q", "1">>), TRUE, TRUE>>}
ArgsSet ==
  {NewArgs(r, d, pw[1], pw[2], sa[1], sa[2], sa[3]) :
     r \in BOOLEAN, d \in BOOLEAN, pw \in {<<"", "">>, <<"pw", "">>, <<"", "pw">>},
     sa \in SearchArgs}
NoArgs == NewArgs(FALSE, FALSE, "", "", None, FALSE, FALSE)

NoCache == [exists |-> FALSE, data |-> <<>>]
Caches ==
  {NoCache} \cup {[exists |-> TRUE, data |-> d] : d \in SeqsUpTo(MainRecords, MaxRecords)}

(***************************************************************************)
(* The calls of the pure functions.                                        *)
(***************************************************************************)
ExtractUrls ==
  /\ pc = "extract_urls"
  /\ ret' = extract_urls(input)
  /\ pc' = "returned"
  /\ UNCHANGED <<input, content, idx, entries, diag, term, case_sensitive,
                 whole_word, results, dir, nb_entries, args, cache>>

StripTags ==
  /\ pc = "strip_tags"
  /\ ret' = strip_tags(input)
  /\ pc' = "returned"
  /\ UNCHANGED <<input, content, idx, entries, diag, term, case_sensitive,
                 whole_word, results, dir, nb_entries, args, cache>>

(***************************************************************************)
(* The specifications.                                                     *)
(***************************************************************************)
\* What a specification does not use.
Idle(used) ==
  /\ "input" \in used \/ input = None
  /\ ret = <<>>
  /\ "content" \in used \/ content = <<>>
  /\ idx = 1
  /\ "entries" \in used \/ entries = <<>>
  /\ diag = <<>>
  /\ "term" \in used \/ (term = <<>> /\ case_sensitive = FALSE /\ whole_word = FALSE)
  /\ results = <<>>
  /\ "dir" \in used \/ dir = [exists |-> FALSE, files |-> {}]
  /\ nb_entries = 0
  /\ "args" \in used \/ args = NoArgs
  /\ "cache" \in used \/ cache = NoCache

\* extract_urls on every input.
InitUrls == pc = "extract_urls" /\ input \in UrlInputs /\ Idle({"input"})
SpecUrls == InitUrls /\ [][ExtractUrls]_vars

\* strip_tags on every input.
InitStrip == pc = "strip_tags" /\ input \in HtmlInputs /\ Idle({"input"})
SpecStrip == InitStrip /\ [][StripTags]_vars

\* parse_json_data on every list of raw records.
InitParse ==
  pc = "parse" /\ content \in SeqsUpTo(RawRecords, MaxRecords) /\ Idle({"content"})
NextParse == ParseKeep \/ ParseExclude \/ ParseSkip \/ ParseRaise \/ ParseReturn
SpecParse == InitParse /\ [][NextParse]_vars

\* search_entries on every list of entries, with every term and flag.
InitSearch ==
  /\ pc = "search"
  /\ entries \in SeqsUpTo(SearchUniverse, MaxEntries)
  /\ term \in SearchTerms
  /\ case_sensitive \in BOOLEAN
  /\ whole_word \in BOOLEAN
  /\ Idle({"entries", "term"})
NextSearch == SearchHit \/ SearchMiss \/ SearchReturn
SpecSearch == InitSearch /\ [][NextSearch]_vars

\* dump_entries on every list of entries, over every directory.
InitDump ==
  /\ pc = "dump"
  /\ entries \in SeqsUpTo(DumpUniverse, MaxEntries)
  /\ dir \in PriorDirs
  /\ Idle({"entries", "dir"})
NextDump == DumpClear \/ DumpWrite \/ DumpWriteFails \/ DumpReport
SpecDump == InitDump /\ [][NextDump]_vars

\* main, from every command line, cache and directory.
Init ==
  /\ pc = "start"
  /\ args \in ArgsSet
  /\ cache \in Caches
  /\ dir \in PriorDirs
  /\ Idle({"args", "cache", "dir"})

Next ==
  \/ MainDownload
  \/ MainLoadCache
  \/ DownloadNoPassword
  \/ DownloadFails
  \/ \E data \in SeqsUpTo(MainRecords, MaxRecords) : DownloadOk(data)
  \/ NextParse
  \/ MainSearch
  \/ MainNoSearch
  \/ NextSearch
  \/ MainDump
  \/ NextDump
  \/ MainDone

Spec == Init /\ [][Next]_vars

(***************************************************************************)
(* The properties.                                                         *)
(***************************************************************************)
\* The exclusion set, as the claims name it.
ClaimedExcluded == {"Marked for deletion", "Subsection", "Duplicate"}

\* C1: no entry parse_json_data returns has an excluded status, so in a run
\* of main none is handed to search_entries or dump_entries: no search
\* result and no file dump_entries wrote carries an excluded status.
C1_NoExcludedDownstream ==
  /\ \A k \in 1..Len(entries) : entries[k].status \notin ClaimedExcluded
  /\ \A k \in 1..Len(results) : results[k].status \notin ClaimedExcluded
  /\ pc \in {"dump_loop", "dumped"} \/ (pc = "done" /\ args.dump)
       => \A f \in dir.files : f.name[1] \notin ClaimedExcluded

\* C1's case: main has searched and dumped data that held a well-formed
\* record of excluded status, over a directory that held such a file.
C1_Witness ==
  /\ pc = "done"
  /\ args.dump
  /\ \E k \in 1..Len(content) :
       /\ content[k].t = "dict"
       /\ MakeEntry(content[k]).exc = ""
       /\ MakeEntry(content[k]).val.status \in ClaimedExcluded
  /\ results # <<>>
  /\ dir.files # {}

\* C2: parse_json_data never leaves by an exception, and when it returns
\* every record was kept, left out for its status or reported as skipped.
C2_NeverAborts ==
  /\ pc # "parse_raised"
  /\ pc = "parsed" =>
       /\ Len(entries) + Len(diag) <= Len(content)
       /\ Len(entries) + Len(diag) +
            Cardinality({k \in 1..Len(content) :
                           /\ content[k].t = "dict"
                           /\ Get(content[k], "status", "") \in ClaimedExcluded})
            >= Len(content)

\* C3: a space, a straight double quote and a closing angle bracket each end
\* a match: none of them is part of an http(s) URL that extract_urls returns.
C3_TruncatedAtDisallowed ==
  pc = "returned" =>
    \A k \in 1..Len(ret) :
      UrlPrefix(ret[k], 1) # 0 =>
        \A j \in 1..Len(ret[k]) : ret[k][j] \notin {" ", "\"", ">"}

\* C4 as stated: the scenario's two records give one entry, titled "Q1",
\* with the text stripped and the URL cut before the closing parenthesis.
C4_ScenarioAsClaimed ==
  pc = "parsed" /\ content = <<RecordQ1, RecordQ2>> =>
    /\ Len(entries) = 1
    /\ entries[1].title = <<"Q", "1">>
    /\ entries[1].text = <<"S", "e", "e", " ", "h", "t", "t", "p", ":", "/", "/", "x", ".", "i", "o", "/", "a", ",", "b", ")", " ", "m", "o", "r", "e">>
    /\ entries[1].URLs = <<<<"h", "t", "t", "p", ":", "/", "/", "x", ".", "i", "o", "/", "a", ",", "b">>>>

\* C4 amended: the scenario's two records give one entry, titled "Q1", with
\* the text stripped and the URL with its closing parenthesis, a character
\* the pattern allows.
C4_Scenario ==
  pc = "parsed" /\ content = <<RecordQ1, RecordQ2>> =>
    /\ Len(entries) = 1
    /\ entries[1].title = <<"Q", "1">>
    /\ entries[1].text = <<"S", "e", "e", " ", "h", "t", "t", "p", ":", "/", "/", "x", ".", "i", "o", "/", "a", ",", "b", ")", " ", "m", "o", "r", "e">>
    /\ entries[1].URLs = <<<<"h", "t", "t", "p", ":", "/", "/", "x", ".", "i", "o", "/", "a", ",", "b", ")">>>>

\* C4's case: parse_json_data has returned from the scenario's two records.
C4_Witness ==
  pc = "parsed" /\ content = <<RecordQ1, RecordQ2>> /\ Len(entries) = 1

\* The pattern matches a line of the text.
C5LineHit(e) ==
  \E j \in 1..Len(SplitLines(e.text)) :
    \E p \in 1..(Len(SplitLines(e.text)[j]) + 1) :
      MatchAt(SplitLines(e.text)[j], p, term, case_sensitive, whole_word)

\* The pattern matches the title, a line of the text or a URL.
C5Hit(e) ==
  \/ \E p \in 1..(Len(e.title) + 1) : MatchAt(e.title, p, term, case_sensitive, whole_word)
  \/ C5LineHit(e)
  \/ \E k \in 1..Len(e.URLs) :
       \E p \in 1..(Len(e.URLs[k]) + 1) :
         MatchAt(e.URLs[k], p, term, case_sensitive, whole_word)

\* C5: search_entries returns a result for exactly the entries whose title,
\* some line or some URL the pattern matches: every result has a match
\* record, and there are as many results as such entries.
C5_ResultIffMatch ==
  pc = "searched" =>
    /\ \A k \in 1..Len(results) : results[k].matches # <<>>
    /\ Len(results) = Cardinality({j \in 1..Len(entries) : C5Hit(entries[j])})

\* The starts of the matches in a line, left to right, none overlapping the
\* one before: as a set, and in ascending order.
C6Occurrences(line) ==
  LET step == IF term = <<>> THEN 1 ELSE Len(term)
      hit(p) == MatchAt(line, p, term, case_sensitive, whole_word)
  IN CHOOSE P \in SUBSET (1..(Len(line) + 1)) :
       /\ \A p \in P : hit(p)
       /\ \A p \in P : \A q \in P : p < q => p + step <= q
       /\ \A q \in (1..(Len(line) + 1)) \ P :
            hit(q) => \E p \in P : p < q /\ q < p + step

C6Ascending(P) ==
  [k \in 1..Cardinality(P) |-> CHOOSE p \in P : Cardinality({q \in P : q < p}) = k - 1]

C6LineRecords(line) ==
  LET ps == C6Ascending(C6Occurrences(line)) IN
    [k \in 1..Len(ps) |->
       MatchRecord("text", -1, Group(line, ps[k], term), Strip(line))]

C6Leftmost(x) ==
  CHOOSE p \in 1..(Len(x) + 1) :
    /\ MatchAt(x, p, term, case_sensitive, whole_word)
    /\ \A q \in 1..(p - 1) : ~MatchAt(x, q, term, case_sensitive, whole_word)

C6Matches(x) == \E p \in 1..(Len(x) + 1) : MatchAt(x, p, term, case_sensitive, whole_word)

C6UrlHit(u) == C6Matches(u)

\* The match records in the order the claim gives: the title match, the
\* text matches line by line and left to right, the URL matches in URL order.
C6Expected(e) ==
  LET lines == SplitLines(e.text)
      hits == SelectSeq(e.URLs, C6UrlHit)
  IN (IF C6Matches(e.title)
      THEN <<MatchRecord("title", C6Leftmost(e.title) - 1,
                         Group(e.title, C6Leftmost(e.title), term), <<>>)>>
      ELSE <<>>)
       \o Flatten([j \in 1..Len(lines) |-> C6LineRecords(lines[j])])
       \o [k \in 1..Len(hits) |->
             MatchRecord("url", -1, Group(hits[k], C6Leftmost(hits[k]), term), hits[k])]

\* The results are those of entries met so far, in the order of the entries,
\* and each holds its match records in the claimed order.
C6Ordered ==
  pc \in {"search", "searched"} =>
    \E f \in [1..Len(results) -> 1..(idx - 1)] :
      /\ \A a \in 1..Len(results) : \A b \in 1..Len(results) : a < b => f[a] < f[b]
      /\ \A k \in 1..Len(results) :
           results[k] = [title |-> entries[f[k]].title,
                         status |-> entries[f[k]].status,
                         matches |-> C6Expected(entries[f[k]])]

\* C6: search_entries keeps the order of the entries in its results and,
\* in a result, the order title, text lines left to right, URLs; it never
\* changes the entries it was given.
C6_OrderPreserved == []C6Ordered /\ [][entries' = entries]_vars

\* C6's case: two entries gave two results, one of them with a title
\* match, two matches in one line and a URL match.
C6_Witness ==
  /\ pc = "searched"
  /\ Len(results) = 2
  /\ \E k \in 1..2 :
       LET m == results[k].matches IN
         /\ Len(m) >= 4
         /\ m[1].kind = "title"
         /\ m[2].kind = "text" /\ m[3].kind = "text" /\ m[2].line = m[3].line
         /\ m[Len(m)].kind = "url"

\* A tag: '<' and a letter or '/', closed by a later '>'.
C7HasTag(s) ==
  \E i \in 1..Len(s) : \E j \in 1..Len(s) :
    /\ i + 1 < j
    /\ s[i] = "<"
    /\ IsAlpha(s[i + 1]) \/ s[i + 1] = "/"
    /\ s[j] = ">"

C7HasReference(s) == \E i \in 1..Len(s) : s[i] = "&"

C8_DoubleZSkipped ==
  /\ pc = "parsed"
  /\ Len(content) = 1
  /\ content[1].t = "dict"
  /\ Get(content[1], "text", Str(<<>>)).t = "str"
  /\ Get(content[1], "status", "") \notin ClaimedExcluded
  /\ Get(content[1], "updatedAt", Str(<<>>)) = Str(DateOk \o <<"Z", "Z">>)
  => entries = <<>> /\ Len(diag) = 1

\* C9: after a dump in which no write failed, the directory holds as many
\* files as there are entries, which is the count the dump reports.
C9_OneFilePerEntry ==
  pc = "dumped" /\ nb_entries = Len(entries) =>
    /\ Cardinality(dir.files) = Len(entries)
    /\ diag[Len(diag)] = <<"Dumped", Cardinality(dir.files)>>

\* Where main stops without data: no credential, or a failed fetch.
C10Fatal == pc \in {"exit", "fetch_failed"}

C10State ==
  /\ pc = "download" => args.refresh \/ ~cache.exists
  /\ pc = "exit" => args.password = "" /\ args.STAMPY_PASSWORD = ""
  /\ C10Fatal => entries = <<>> /\ results = <<>> /\ content = <<>> /\ nb_entries = 0

C10Step ==
  /\ pc' = "download" => args.refresh \/ ~cache.exists
  /\ pc = "download" /\ args.password = "" /\ args.STAMPY_PASSWORD = "" => pc' = "exit"
  /\ pc \in {"start", "download"} /\ pc' \in {"download", "exit", "fetch_failed"}
       => cache' = cache /\ dir' = dir
  /\ C10Fatal => pc' = pc

\* C10: main downloads only with --refresh or without a cache file; without
\* a credential, or when the fetch fails, it stops there: the cache file and
\* the output directory are as they were, and nothing was normalized,
\* searched or dumped.
C10_FailureLeavesOutput == []C10State /\ [][C10Step]_vars

\* C10's case: a refresh failed over an existing cache file and directory,
\* with a dump asked for.
C10_Witness ==
  /\ pc = "fetch_failed"
  /\ args.refresh /\ args.dump
  /\ cache.exists /\ cache.data # <<>>
  /\ dir.exists /\ dir.files # {}

====
